---- MODULE Spec2Model ----
(***************************************************************************)
(* Model of the oapm-infra-monitoring scripts:                             *)
(*   CheckURLResponse.py  URL health check, persisted to a table, mailed   *)
(*   SessionUsage.py      session-usage threshold alert, mailed            *)
(*   connector.py         Debezium connector alerts, CSV files, mailed     *)
(* Text the scripts parse (URLs, file contents, recipient strings) is a    *)
(* sequence of one-character strings; status labels and log tags are       *)
(* strings.                                                                *)
(***************************************************************************)
EXTENDS Integers, Sequences, FiniteSets, TLC

VARIABLES
    script,      \* which program this behaviour runs
    pc,          \* position in the program
    log,         \* the set of messages logged at ERROR level (by tag)
    escaped,     \* an exception left the script's main flow uncaught
    dispatch,    \* the calls of the mail function, in order, each with its outcome
    \* CheckURLResponse.py
    fs,          \* BASE_PATH: [isdir, files], files the directory entries os.walk lists
    walked,      \* number of directory entries the walk has passed
    conn,        \* "None", "open" or "closed"
    connects,    \* number of connections psycopg2.connect returned
    used_closed, \* a statement ran on a connection that was not open
    table,       \* committed rows of apm_url_response_status, in insertion order
    now,         \* the database clock (CURRENT_TIMESTAMP)
    urls,        \* URLs of the current file still to probe
    results,     \* main's in-memory results list
    gets,        \* number of HTTP GETs issued by check_url_status
    fetched,     \* the latest-status query has returned its rows
    failed_urls, \* rows returned by the latest-status query
    run,         \* number of this run among the runs made against the database
    \* SessionUsage.py
    samples,     \* the result items of the API response
    all_alerts,  \* the alerts of the samples at or above THRESHOLD
    prd_alerts,  \* the production bucket
    npd_alerts,  \* the non-production bucket
    \* connector.py
    next_query,  \* index in QUERIES_TO_RUN of the next query to run
    all_alerts_data,      \* the master list of alerts
    generated_csv_files,  \* filenames collected for attachment
    csv_written, \* the CSV files written in this run: records of filename and rows
    \* function harness
    call,        \* the pending call [fn, segs, arg]
    ret          \* [done |-> FALSE] or [done |-> TRUE, value |-> v]

commonVars == <<log, escaped, dispatch>>

healthVars ==
    <<fs, walked, conn, connects, used_closed, table, now, urls, results, gets, fetched,
      failed_urls, run>>

sessionVars == <<samples, all_alerts, prd_alerts, npd_alerts>>

connectorVars == <<next_query, all_alerts_data, generated_csv_files, csv_written>>

harnessVars == <<call, ret>>

otherThanHealth == <<sessionVars, connectorVars, harnessVars>>

vars == <<script, pc, commonVars, healthVars, sessionVars, connectorVars, harnessVars>>

----------------------------------------------------------------------------
(* Bounds of the model *)

MaxSegs == 7

MaxFiles == 2

MaxItems == 2

MaxRuns == 2

----------------------------------------------------------------------------
(* Python string operations on character sequences *)

Min(a, b) == IF a < b THEN a ELSE b

LowerLetters ==
    <<"a", "b", "c", "d", "e", "f", "g", "h", "i", "j", "k", "l", "m", "n", "o", "p", "q",
    "r", "s", "t", "u", "v", "w", "x", "y", "z">>

UpperLetters ==
    <<"A", "B", "C", "D", "E", "F", "G", "H", "I", "J", "K", "L", "M", "N", "O", "P", "Q",
    "R", "S", "T", "U", "V", "W", "X", "Y", "Z">>

\* str.upper() on one character
UpperChar(c) ==
    IF \E i \in 1..26 : LowerLetters[i] = c
    THEN UpperLetters[CHOOSE i \in 1..26 : LowerLetters[i] = c]
    ELSE c

\* str.lower() on one character
LowerChar(c) ==
    IF \E i \in 1..26 : UpperLetters[i] = c
    THEN LowerLetters[CHOOSE i \in 1..26 : UpperLetters[i] = c]
    ELSE c

Upper(s) == [i \in 1..Len(s) |-> UpperChar(s[i])]

Lower(s) == [i \in 1..Len(s) |-> LowerChar(s[i])]

\* s[:n]
Take(s, n) == SubSeq(s, 1, Min(n, Len(s)))

IsSpace(c) == c \in {" ", "\t", "\n", "\r"}

\* str.split(sep) for a one-character separator: always at least one part
RECURSIVE Split(_, _)
Split(s, sep) ==
    IF \A i \in 1..Len(s) : s[i] # sep
    THEN <<s>>
    ELSE LET i == CHOOSE k \in 1..Len(s) : s[k] = sep /\ \A j \in 1..(k - 1) : s[j] # sep
         IN  <<SubSeq(s, 1, i - 1)>> \o Split(SubSeq(s, i + 1, Len(s)), sep)

\* str.strip()
RECURSIVE Strip(_)
Strip(s) ==
    IF s = <<>> THEN s
    ELSE IF IsSpace(s[1]) THEN Strip(Tail(s))
    ELSE IF IsSpace(s[Len(s)]) THEN Strip(SubSeq(s, 1, Len(s) - 1))
    ELSE s

\* sep.join(parts)
RECURSIVE Join(_, _)
Join(parts, sep) ==
    IF parts = <<>> THEN <<>>
    ELSE IF Len(parts) = 1 THEN parts[1]
    ELSE parts[1] \o <<sep>> \o Join(Tail(parts), sep)

StartsWithAt(s, i, p) ==
    /\ i + Len(p) - 1 <= Len(s)
    /\ \A k \in 1..Len(p) : s[i + k - 1] = p[k]

StartsWith(s, p) == StartsWithAt(s, 1, p)

EndsWith(s, p) == Len(p) <= Len(s) /\ StartsWithAt(s, Len(s) - Len(p) + 1, p)

----------------------------------------------------------------------------
(* Text constants *)

NA ==
    <<"N", "/", "A">>

ExampleUrl ==
    <<"h", "t", "t", "p", "s", ":", "/", "/", "h", "/", "C", "L", "I", "E", "N", "T", "X",
    "/", "G", "R", "O", "K", "/", "P", "R", "D", "E", "N", "V", "/", "m", "e", "t", "r", "i",
    "c", "s">>

ScenarioUrl ==
    <<"h", "t", "t", "p", "s", ":", "/", "/", "h", "/", "C", "/", "G", "/", "P", "R", "D",
    "1", "/", "m", "e", "t", "r", "i", "c", "s">>

----------------------------------------------------------------------------
(* CheckURLResponse.py: URL Classifier *)

\* A faulty variant: the length test off by one (len(parts) > 6)
extract_info_from_url_off_by_one(url) ==
    LET parts == Split(url, "/")
    IN  IF Len(parts) > 6
        THEN <<parts[4], Upper(Take(parts[6], 3))>>
        ELSE <<NA, NA>>

\* parts[3] and parts[5][:3].upper() of url.split('/'), indices counted from 0
extract_info_from_url(url) ==
    LET parts == Split(url, "/")
    IN  IF Len(parts) > 5
        THEN <<parts[4], Upper(Take(parts[6], 3))>>
        ELSE <<NA, NA>>

----------------------------------------------------------------------------
(* CheckURLResponse.py: Config Extractor *)

Digits == {"0", "1", "2", "3", "4", "5", "6", "7", "8", "9"}

BACKUP_FILE_PATTERNS ==
    << <<".", "b", "a", "k">>, <<".", "o", "r", "i", "g">>, <<".", "o", "l", "d">>,
       <<".", "t", "m", "p">> >>

PRD_BATCH_DIR_PREFIX ==
    <<"p", "r", "d", "_", "a", "p", "m", "_", "b", "a", "t", "c", "h">>

PySuffix ==
    <<".", "p", "y">>

\* re.search(r'\.py\.\d{8}$', s): '$' matches at the end and before a final newline
DateBackupAtEnd(s) ==
    /\ Len(s) >= 12
    /\ StartsWithAt(s, Len(s) - 11, PySuffix \o <<".">>)
    /\ \A i \in (Len(s) - 7)..Len(s) : s[i] \in Digits

MatchesDateBackup(s) ==
    \/ DateBackupAtEnd(s)
    \/ (s # <<>> /\ s[Len(s)] = "\n" /\ DateBackupAtEnd(SubSeq(s, 1, Len(s) - 1)))

is_backup_file(filename) ==
    \/ MatchesDateBackup(filename)
    \/ EndsWith(filename, <<"~">>)
    \/ (StartsWith(filename, <<"#">>) /\ EndsWith(filename, <<"#">>))
    \/ \E k \in 1..Len(BACKUP_FILE_PATTERNS) :
          EndsWith(Lower(filename), BACKUP_FILE_PATTERNS[k])

\* A faulty variant: ".py" is looked for anywhere in the name, not at its end
IsQualifyingFile_py_anywhere(file) ==
    /\ \E i \in 1..Len(file) : StartsWithAt(file, i, PySuffix)
    /\ ~is_backup_file(file)

\* The test find_python_files_in_batch_dirs applies to each file of a batch directory
IsQualifyingFile(file) == EndsWith(file, PySuffix) /\ ~is_backup_file(file)

GrokWord ==
    <<"g", "r", "o", "k">>

UrlOpen ==
    <<"\"", "h", "t", "t", "p", "s", ":", "/", "/">>

UrlClose ==
    <<"m", "e", "t", "r", "i", "c", "s", "\"">>

\* The first position at or after i that holds no whitespace (Len(s) + 1 if none)
RECURSIVE SkipSpace(_, _)
SkipSpace(s, i) ==
    IF i <= Len(s) /\ IsSpace(s[i]) THEN SkipSpace(s, i + 1) ELSE i

\* Where r"grok\s*=\s*(\[.*?\])" (DOTALL) matches when tried at position i: the
\* span <<from, to>> of its group, from the '[' to the first ']' after it; <<>> if
\* it does not match there
GrokMatchAt(s, i) ==
    IF ~StartsWithAt(s, i, GrokWord) THEN <<>>
    ELSE LET j == SkipSpace(s, i + 4)
         IN  IF ~(j <= Len(s) /\ s[j] = "=") THEN <<>>
             ELSE LET k == SkipSpace(s, j + 1)
                  IN  IF ~(k <= Len(s) /\ s[k] = "[") THEN <<>>
                      ELSE IF \A m \in (k + 1)..Len(s) : s[m] # "]" THEN <<>>
                      ELSE <<k, CHOOSE m \in (k + 1)..Len(s) :
                                    s[m] = "]" /\ \A n \in (k + 1)..(m - 1) : s[n] # "]">>

\* grok_pattern.search(content).group(1), or <<>> when there is no match. A match
\* is never empty: it holds at least "[]".
GrokSearch(content) ==
    IF \A i \in 1..Len(content) : GrokMatchAt(content, i) = <<>>
    THEN <<>>
    ELSE LET i == CHOOSE k \in 1..Len(content) :
                      /\ GrokMatchAt(content, k) # <<>>
                      /\ \A j \in 1..(k - 1) : GrokMatchAt(content, j) = <<>>
             span == GrokMatchAt(content, i)
         IN  SubSeq(content, span[1], span[2])

\* re.findall(r'"(https://.*?metrics)"', s) scanning from position p ('.' does not
\* match a newline)
RECURSIVE FindAllUrls(_, _)
FindAllUrls(s, p) ==
    LET Closes(i) == { e \in (i + Len(UrlOpen))..Len(s) : StartsWithAt(s, e, UrlClose) }
        MatchAt(i) ==
            /\ StartsWithAt(s, i, UrlOpen)
            /\ Closes(i) # {}
            /\ LET e == CHOOSE x \in Closes(i) : \A y \in Closes(i) : x <= y
               IN  \A n \in (i + Len(UrlOpen))..(e - 1) : s[n] # "\n"
        starts == { i \in p..Len(s) : MatchAt(i) }
    IN  IF starts = {} THEN <<>>
        ELSE LET i == CHOOSE x \in starts : \A y \in starts : x <= y
                 e == CHOOSE x \in Closes(i) : \A y \in Closes(i) : x <= y
             IN  <<SubSeq(s, i + 1, e + Len(UrlClose) - 2)>>
                     \o FindAllUrls(s, e + Len(UrlClose))

\* s.replace('"', '').replace("'", "")
RECURSIVE RemoveQuotes(_)
RemoveQuotes(s) ==
    IF s = <<>> THEN <<>>
    ELSE IF s[1] \in {"\"", "'"} THEN RemoveQuotes(Tail(s))
    ELSE <<s[1]>> \o RemoveQuotes(Tail(s))

NoGrok == [urls |-> <<>>, client |-> <<>>, env |-> <<>>]

\* extract_grok_data on the text read from the file: (urls, client, env), or
\* NoGrok for the (None, None, None) it returns when nothing is extracted
extract_grok_data(content) ==
    LET grok_str == GrokSearch(content)
    IN  IF grok_str = <<>> THEN NoGrok
        ELSE LET parts == Split(SubSeq(grok_str, 2, Len(grok_str) - 1), ",")
             IN  IF Len(parts) < 3 THEN NoGrok
                 ELSE LET urls_part == Strip(parts[1])
                          client == RemoveQuotes(Strip(parts[2]))
                          env == RemoveQuotes(Strip(parts[3]))
                          found == FindAllUrls(urls_part, 1)
                      IN  IF found # <<>> /\ client # <<>> /\ env # <<>>
                          THEN [urls |-> found, client |-> client, env |-> env]
                          ELSE NoGrok

----------------------------------------------------------------------------
(* CheckURLResponse.py: Health Prober *)

\* What requests.get can do: return a response, or raise
StatusCodes == {200, 404, 500}

ExceptionKinds ==
    {"ReadTimeout", "ConnectTimeout", "ConnectionError", "TooManyRedirects", "RuntimeError"}

Response(code) == [kind |-> "response", code |-> code, exc |-> "-"]

Raised(exc) == [kind |-> "raise", code |-> 0, exc |-> exc]

GetOutcomes ==
    { Response(code) : code \in StatusCodes } \cup { Raised(exc) : exc \in ExceptionKinds }

\* The outcomes drawn for the probes of a health-check run
ProbeOutcomes == { Response(200), Response(500), Raised("ReadTimeout") }

\* The classes an exception kind is an instance of
Ancestors(exc) ==
    CASE exc = "ReadTimeout"      -> {"Timeout", "RequestException", "Exception"}
      [] exc = "ConnectTimeout"   ->
             {"ConnectionError", "Timeout", "RequestException", "Exception"}
      [] exc = "ConnectionError"  -> {"ConnectionError", "RequestException", "Exception"}
      [] exc = "TooManyRedirects" -> {"RequestException", "Exception"}
      [] OTHER                    -> {"Exception"}

\* A faulty variant: a timed-out request is issued a second time
check_url_status_retry(outcome) ==
    IF outcome.kind = "response"
    THEN [status |-> ToString(outcome.code), requests |-> 1]
    ELSE IF "Timeout" \in Ancestors(outcome.exc)
    THEN [status |-> "Timeout", requests |-> 2]
    ELSE IF "ConnectionError" \in Ancestors(outcome.exc)
    THEN [status |-> "Connection Error", requests |-> 1]
    ELSE IF "RequestException" \in Ancestors(outcome.exc)
    THEN [status |-> "Request Error: " \o outcome.exc, requests |-> 1]
    ELSE [status |-> "Unknown Error: " \o outcome.exc, requests |-> 1]

\* check_url_status on each outcome of its one requests.get: the label returned
\* and the number of requests issued
check_url_status(outcome) ==
    IF outcome.kind = "response"
    THEN [status |-> ToString(outcome.code), requests |-> 1]
    ELSE IF "Timeout" \in Ancestors(outcome.exc)
    THEN [status |-> "Timeout", requests |-> 1]
    ELSE IF "ConnectionError" \in Ancestors(outcome.exc)
    THEN [status |-> "Connection Error", requests |-> 1]
    ELSE IF "RequestException" \in Ancestors(outcome.exc)
    THEN [status |-> "Request Error: " \o outcome.exc, requests |-> 1]
    ELSE [status |-> "Unknown Error: " \o outcome.exc, requests |-> 1]

----------------------------------------------------------------------------
(* Mail dispatch, common to the three scripts *)

\* [r.strip() for r in parts]
StripEach(parts) == [i \in 1..Len(parts) |-> Strip(parts[i])]

\* [r for r in parts if r]
RECURSIVE DropEmpty(_)
DropEmpty(parts) ==
    IF parts = <<>> THEN <<>>
    ELSE IF parts[1] = <<>> THEN DropEmpty(Tail(parts))
    ELSE <<parts[1]>> \o DropEmpty(Tail(parts))

\* Values RECEIVER_EMAILS_STR is configured with
RecipientStrings ==
    { <<>>,
      <<" ">>,
      <<"a">>,
      <<"a", ",", "b">>,
      <<" ", "a", " ", ",", " ", ",", "b">>,
      <<",", "a">>,
      <<"a", ",">> }

\* What the SMTP session does: the message is accepted, smtplib raises an
\* SMTPException, or the connection to the relay fails with an OSError
SmtpOutcomes == {"sent", "SMTPException", "OSError"}

\* One call of a mail function
Dispatched(recipients_str, to, outcome, body, attachments) ==
    [recipients_str |-> recipients_str, to |-> to, outcome |-> outcome, body |-> body,
     attachments |-> attachments]

\* The messages the relay accepted
SentEmails == { i \in DOMAIN dispatch : dispatch[i].outcome = "sent" }

\* Number of <table> elements of an HTML body
TableCount(body) == Cardinality({ i \in DOMAIN body : body[i].tag = "table" })

\* receivers_list of send_alert_email (CheckURLResponse.py and SessionUsage.py)
alert_receivers_list(recipients_str) == DropEmpty(StripEach(Split(recipients_str, ",")))

----------------------------------------------------------------------------
(* CheckURLResponse.py: persistence and reporting *)

File(dir, name, text) == [dir |-> dir, name |-> name, text |-> text]

BatchDir == PRD_BATCH_DIR_PREFIX \o <<"1">>

OtherDir == <<"o", "l", "d">>

GrokNestedText ==
    <<"g", "r", "o", "k", " ", "=", " ", "[", "[", "\"", "h", "t", "t", "p", "s", ":", "/",
    "/", "h", "/", "C", "/", "G", "/", "P", "R", "D", "1", "/", "m", "e", "t", "r", "i", "c",
    "s", "\"", "]", ",", " ", "\"", "C", "\"", ",", " ", "\"", "P", "R", "D", "\"", "]">>

GrokFlatText ==
    <<"g", "r", "o", "k", " ", "=", " ", "[", "\"", "h", "t", "t", "p", "s", ":", "/", "/",
    "h", "/", "C", "/", "G", "/", "P", "R", "D", "1", "/", "m", "e", "t", "r", "i", "c", "s",
    "\"", ",", " ", "\"", "C", "\"", ",", " ", "\"", "P", "R", "D", "\"", "]">>

GrokShortUrlText ==
    <<"g", "r", "o", "k", "=", "[", "\"", "h", "t", "t", "p", "s", ":", "/", "/", "h", "/",
    "m", "e", "t", "r", "i", "c", "s", "\"", ",", "'", "C", "'", ",", "\"", "D", "E", "V",
    "\"", "]">>

NoGrokText ==
    <<"u", "r", "l", "s", " ", "=", " ", "[", "]">>

\* The end-to-end scenario's file: grok = [["https://h/C/G/PRD1/metrics"], "C", "PRD"]
ScenarioFile == File(BatchDir, <<"a", ".", "p", "y">>, GrokNestedText)

\* Files that can be found under BASE_PATH
FilePool ==
    { ScenarioFile,
      File(BatchDir, <<"b", ".", "p", "y">>, GrokFlatText),
      File(BatchDir, <<"d", ".", "p", "y">>, GrokFlatText),
      File(BatchDir, <<"c", ".", "p", "y">>, GrokShortUrlText),
      File(BatchDir, <<"n", ".", "p", "y">>, NoGrokText),
      File(BatchDir, <<"b", ".", "p", "y", ".", "b", "a", "k">>, GrokFlatText),
      File(OtherDir, <<"b", ".", "p", "y">>, GrokFlatText) }

\* The orders in which the elements of a finite set can be listed
Orderings(S) ==
    { q \in [1..Cardinality(S) -> S] : \A i, j \in 1..Cardinality(S) : i # j => q[i] # q[j] }

\* What os.walk can list under BASE_PATH: up to MaxFiles files, in any order
Directories ==
    UNION { Orderings(S) : S \in { T \in SUBSET FilePool : Cardinality(T) <= MaxFiles } }

\* What reading a file's text can do
ReadOutcomes == {"ok", "IOError", "UnicodeDecodeError"}

Row(id, client, env, url, status, ts) ==
    [id |-> id, client |-> client, env |-> env, url |-> url, status |-> status,
     check_timestamp |-> ts]

UrlsOf(t) == { t[i].url : i \in DOMAIN t }

\* ROW_NUMBER() OVER (PARTITION BY url ORDER BY check_timestamp DESC) ... rn = 1:
\* one row index for each url, of a row with the greatest check_timestamp among
\* that url's rows. The ORDER BY names no other column, so among rows with equal
\* timestamps any one can be numbered 1.
LatestPicks(t) ==
    { f \in [UrlsOf(t) -> DOMAIN t] :
        \A u \in UrlsOf(t) :
            /\ t[f[u]].url = u
            /\ \A j \in DOMAIN t :
                  t[j].url = u => t[j].check_timestamp <= t[f[u]].check_timestamp }

\* ... WHERE rn = 1 AND status <> '200', as the dicts appended to failed_urls
FailedOf(t, f) ==
    { [client |-> t[f[u]].client, env |-> t[f[u]].env, url |-> u, status |-> t[f[u]].status] :
        u \in { v \in UrlsOf(t) : t[f[v]].status # "200" } }

create_failure_report_html(alerts) ==
    IF alerts = <<>> THEN <<>>
    ELSE << [tag |-> "h3", text |-> "Failed URL Checks"],
            [tag |-> "table",
             header |-> <<"Client", "Environment", "URL", "Status">>,
             rows |-> [i \in 1..Len(alerts) |->
                          <<alerts[i].client, alerts[i].env, alerts[i].url,
                            alerts[i].status>>]] >>

\* html_body of fetch_and_email_failures
FailureBody(alerts) ==
    << [tag |-> "h2", text |-> "URL Health Check Failure Alert"], [tag |-> "p"] >>
        \o create_failure_report_html(alerts)
        \o << [tag |-> "br"], [tag |-> "div", text |-> "Thanks,"],
              [tag |-> "div", text |-> "Oapm Team"] >>

HealthIdle ==
    /\ fs = [isdir |-> FALSE, files |-> <<>>]
    /\ walked = 0
    /\ fetched = FALSE
    /\ conn = "None"
    /\ connects = 0
    /\ used_closed = FALSE
    /\ table = <<>>
    /\ now = 0
    /\ urls = <<>>
    /\ results = <<>>
    /\ gets = 0
    /\ failed_urls = <<>>
    /\ run = 1

CommonInit ==
    /\ log = {}
    /\ escaped = FALSE
    /\ dispatch = <<>>

SessionIdle ==
    /\ samples = <<>>
    /\ all_alerts = <<>>
    /\ prd_alerts = <<>>
    /\ npd_alerts = <<>>

ConnectorIdle ==
    /\ next_query = 1
    /\ all_alerts_data = <<>>
    /\ generated_csv_files = <<>>
    /\ csv_written = {}

HarnessIdle ==
    /\ call = [fn |-> "-", segs |-> <<>>, arg |-> <<>>]
    /\ ret = [done |-> FALSE]

InitHealth ==
    /\ script = "CheckURLResponse"
    /\ pc = "start"
    /\ CommonInit
    /\ fs \in [isdir : {TRUE}, files : Directories] \cup {[isdir |-> FALSE, files |-> <<>>]}
    /\ walked = 0
    /\ fetched = FALSE
    /\ conn = "None"
    /\ connects = 0
    /\ used_closed = FALSE
    /\ table = <<>>
    /\ now = 0
    /\ urls = <<>>
    /\ results = <<>>
    /\ gets = 0
    /\ failed_urls = <<>>
    /\ run = 1
    /\ SessionIdle
    /\ ConnectorIdle
    /\ HarnessIdle

\* main: os.path.isdir(BASE_PATH); a missing base path is logged and main returns
CheckBasePath ==
    /\ script = "CheckURLResponse"
    /\ pc = "start"
    /\ IF fs.isdir
       THEN pc' = "connect" /\ UNCHANGED log
       ELSE pc' = "done" /\ log' = log \cup {"Base path does not exist"}
    /\ UNCHANGED <<script, escaped, dispatch, healthVars, otherThanHealth>>

\* main: conn = psycopg2.connect(**DB_CONFIG), which returns a connection or
\* raises a psycopg2.Error that main logs
Connect ==
    /\ script = "CheckURLResponse"
    /\ pc = "connect"
    /\ \E ok \in BOOLEAN :
          IF ok
          THEN /\ conn' = "open"
               /\ connects' = connects + 1
               /\ pc' = "create"
               /\ UNCHANGED log
          ELSE /\ log' = log \cup {"Database error"}
               /\ pc' = "finally"
               /\ UNCHANGED <<conn, connects>>
    /\ UNCHANGED <<script, escaped, dispatch, fs, walked, used_closed, table, now, urls,
                   results, gets, fetched, failed_urls, run, otherThanHealth>>

\* A faulty variant: a failed table creation is logged and not re-raised
CreateUrlStatusTable_not_reraised ==
    /\ script = "CheckURLResponse"
    /\ pc = "create"
    /\ used_closed' = (used_closed \/ conn # "open")
    /\ \E ok \in BOOLEAN :
          IF ok
          THEN UNCHANGED log
          ELSE log' = log \cup {"Error creating table"}
    /\ pc' = "walk"
    /\ UNCHANGED <<script, escaped, dispatch, fs, walked, conn, connects, table, now, urls,
                   results, gets, fetched, failed_urls, run, otherThanHealth>>

\* create_url_status_table: commits, or logs, rolls back and re-raises to main
CreateUrlStatusTable ==
    /\ script = "CheckURLResponse"
    /\ pc = "create"
    /\ used_closed' = (used_closed \/ conn # "open")
    /\ \E ok \in BOOLEAN :
          IF ok
          THEN pc' = "walk" /\ UNCHANGED log
          ELSE /\ log' = log \cup {"Error creating table", "Database error"}
               /\ pc' = "finally"
    /\ UNCHANGED <<script, escaped, dispatch, fs, walked, conn, connects, table, now, urls,
                   results, gets, fetched, failed_urls, run, otherThanHealth>>

\* main's for loop over find_python_files_in_batch_dirs: the next directory entry.
\* A file that does not qualify is passed over; a qualifying file is read and
\* its grok data extracted. After the last entry main goes on to the report.
NextFile ==
    /\ script = "CheckURLResponse"
    /\ pc = "walk"
    /\ IF walked = Len(fs.files)
       THEN pc' = "report" /\ UNCHANGED <<walked, urls, log>>
       ELSE LET f == fs.files[walked + 1]
            IN  /\ walked' = walked + 1
                /\ IF ~(StartsWith(f.dir, PRD_BATCH_DIR_PREFIX) /\ IsQualifyingFile(f.name))
                   THEN UNCHANGED <<pc, urls, log>>
                   ELSE \E r \in ReadOutcomes :
                          CASE r = "ok" ->
                                 /\ urls' = extract_grok_data(f.text).urls
                                 /\ pc' = IF urls' # <<>> THEN "probe" ELSE "walk"
                                 /\ UNCHANGED log
                            [] r = "IOError" ->
                                 /\ log' = log \cup {"Error reading file"}
                                 /\ UNCHANGED <<pc, urls>>
                            [] OTHER ->
                                 /\ log' = log \cup {"An unexpected error occurred"}
                                 /\ pc' = "finally"
                                 /\ UNCHANGED urls
    /\ UNCHANGED <<script, escaped, dispatch, fs, conn, connects, used_closed, table, now,
                   results, gets, fetched, failed_urls, run, otherThanHealth>>

\* main: status = check_url_status(url); the client and environment are derived
\* from the URL; the result is appended to results
ProbeUrl ==
    /\ script = "CheckURLResponse"
    /\ pc = "probe"
    /\ \E outcome \in ProbeOutcomes :
          LET probed == check_url_status(outcome)
              info == extract_info_from_url(Head(urls))
          IN  /\ gets' = gets + probed.requests
              /\ results' = Append(results, [Client |-> info[1], Env |-> info[2],
                                             URL |-> Head(urls), Status |-> probed.status])
    /\ pc' = "insert"
    /\ UNCHANGED <<script, commonVars, fs, walked, conn, connects, used_closed, table, now,
                   urls, fetched, failed_urls, run, otherThanHealth>>

\* A faulty variant: a failed insert is re-raised to main after the rollback
InsertUrlStatus_reraise ==
    /\ script = "CheckURLResponse"
    /\ pc = "insert"
    /\ used_closed' = (used_closed \/ conn # "open")
    /\ LET r == results[Len(results)]
       IN  \E ok \in BOOLEAN, tick \in {0, 1} :
              /\ now' = now + tick
              /\ IF ok
                 THEN /\ table' = Append(table, Row(Len(table) + 1, r.Client, r.Env, r.URL,
                                                    r.Status, now'))
                      /\ urls' = Tail(urls)
                      /\ pc' = IF urls' = <<>> THEN "walk" ELSE "probe"
                      /\ UNCHANGED log
                 ELSE /\ log' = log \cup {"Error inserting data", "Database error"}
                      /\ pc' = "finally"
                      /\ UNCHANGED <<table, urls>>
    /\ UNCHANGED <<script, escaped, dispatch, fs, walked, conn, connects, results, gets,
                   fetched, failed_urls, run, otherThanHealth>>

\* insert_url_status for the result just appended: the row is committed with the
\* database's current timestamp, or a psycopg2.Error is logged and rolled back
InsertUrlStatus ==
    /\ script = "CheckURLResponse"
    /\ pc = "insert"
    /\ used_closed' = (used_closed \/ conn # "open")
    /\ LET r == results[Len(results)]
       IN  \E ok \in BOOLEAN, tick \in {0, 1} :
              /\ now' = now + tick
              /\ IF ok
                 THEN /\ table' = Append(table, Row(Len(table) + 1, r.Client, r.Env, r.URL,
                                                    r.Status, now'))
                      /\ UNCHANGED log
                 ELSE /\ log' = log \cup {"Error inserting data"}
                      /\ UNCHANGED table
    /\ urls' = Tail(urls)
    /\ pc' = IF urls' = <<>> THEN "walk" ELSE "probe"
    /\ UNCHANGED <<script, escaped, dispatch, fs, walked, conn, connects, results, gets,
                   fetched, failed_urls, run, otherThanHealth>>

\* fetch_and_email_failures, the query: a psycopg2.Error is logged and the
\* function returns; with no failed URL it returns without an email
FetchFailures ==
    /\ script = "CheckURLResponse"
    /\ pc = "report"
    /\ used_closed' = (used_closed \/ conn # "open")
    /\ \E ok \in BOOLEAN :
          IF ok
          THEN /\ \E f \in LatestPicks(table) :
                     failed_urls' \in Orderings(FailedOf(table, f))
               /\ fetched' = TRUE
               /\ pc' = IF failed_urls' = <<>> THEN "finally" ELSE "email"
               /\ UNCHANGED log
          ELSE /\ log' = log \cup {"Could not fetch failed URLs"}
               /\ pc' = "finally"
               /\ UNCHANGED <<fetched, failed_urls>>
    /\ UNCHANGED <<script, escaped, dispatch, fs, walked, conn, connects, table, now, urls,
                   results, gets, run, otherThanHealth>>

\* fetch_and_email_failures, the email: send_alert_email with the failure table.
\* An SMTPException is logged inside send_alert_email; any other exception
\* reaches main's handler.
SendFailureEmail ==
    /\ script = "CheckURLResponse"
    /\ pc = "email"
    /\ \E recipients_str \in RecipientStrings :
          LET receivers_list == alert_receivers_list(recipients_str)
              body == FailureBody(failed_urls)
          IN  IF receivers_list = <<>>
              THEN /\ dispatch' = Append(dispatch,
                          Dispatched(recipients_str, receivers_list, "skipped", body, <<>>))
                   /\ log' = log \cup {"No recipients specified"}
              ELSE \E o \in SmtpOutcomes :
                     /\ dispatch' = Append(dispatch,
                            Dispatched(recipients_str, receivers_list, o, body, <<>>))
                     /\ log' = CASE o = "sent" -> log
                                 [] o = "SMTPException" -> log \cup {"Failed to send email"}
                                 [] OTHER -> log \cup {"An unexpected error occurred"}
    /\ pc' = "finally"
    /\ UNCHANGED <<script, escaped, healthVars, otherThanHealth>>

\* A faulty variant: the connection is closed after the try block, not in a finally
Finally_only_on_success ==
    /\ script = "CheckURLResponse"
    /\ pc = "finally"
    /\ conn' = IF conn = "None" \/ log # {} THEN conn ELSE "closed"
    /\ pc' = "done"
    /\ UNCHANGED <<script, commonVars, fs, walked, connects, used_closed, table, now, urls,
                   results, gets, fetched, failed_urls, run, otherThanHealth>>

\* main's finally block: the connection, if one was made, is closed
Finally ==
    /\ script = "CheckURLResponse"
    /\ pc = "finally"
    /\ conn' = IF conn = "None" THEN conn ELSE "closed"
    /\ pc' = "done"
    /\ UNCHANGED <<script, commonVars, fs, walked, connects, used_closed, table, now, urls,
                   results, gets, fetched, failed_urls, run, otherThanHealth>>

NextHealth ==
    \/ CheckBasePath
    \/ Connect
    \/ CreateUrlStatusTable
    \/ NextFile
    \/ ProbeUrl
    \/ InsertUrlStatus
    \/ FetchFailures
    \/ SendFailureEmail
    \/ Finally

SpecHealth == InitHealth /\ [][NextHealth]_vars

\* Consecutive runs of CheckURLResponse.py against the same database

\* Files of the batch directory in the runs: b.py and d.py, which name the
\* same URL
RunFilePool ==
    { File(BatchDir, <<"b", ".", "p", "y">>, GrokFlatText),
      File(BatchDir, <<"d", ".", "p", "y">>, GrokFlatText) }

\* What BASE_PATH can be at the start of a run
RunFs ==
    [isdir : {TRUE},
     files : UNION { Orderings(S) :
                        S \in { T \in SUBSET RunFilePool : Cardinality(T) <= MaxFiles } }]
        \cup {[isdir |-> FALSE, files |-> <<>>]}

InitRuns ==
    /\ script = "CheckURLResponse"
    /\ pc = "start"
    /\ CommonInit
    /\ fs \in RunFs
    /\ walked = 0
    /\ fetched = FALSE
    /\ conn = "None"
    /\ connects = 0
    /\ used_closed = FALSE
    /\ table = <<>>
    /\ now = 0
    /\ urls = <<>>
    /\ results = <<>>
    /\ gets = 0
    /\ failed_urls = <<>>
    /\ run = 1
    /\ SessionIdle
    /\ ConnectorIdle
    /\ HarnessIdle

\* The script is started again: main's locals and the log start afresh, the
\* files under BASE_PATH may have changed, the table keeps its rows and time
\* has passed
NewRun ==
    /\ script = "CheckURLResponse"
    /\ pc = "done"
    /\ run < MaxRuns
    /\ run' = run + 1
    /\ pc' = "start"
    /\ log' = {}
    /\ escaped' = FALSE
    /\ dispatch' = <<>>
    /\ fs' \in RunFs
    /\ walked' = 0
    /\ fetched' = FALSE
    /\ conn' = "None"
    /\ connects' = 0
    /\ used_closed' = FALSE
    /\ now' = now + 1
    /\ urls' = <<>>
    /\ results' = <<>>
    /\ gets' = 0
    /\ failed_urls' = <<>>
    /\ UNCHANGED <<script, table, otherThanHealth>>

NextRuns ==
    \/ NextHealth
    \/ NewRun

SpecRuns == InitRuns /\ [][NextRuns]_vars

----------------------------------------------------------------------------
(* SessionUsage.py *)

THRESHOLD == 80

DigitChars == <<"0", "1", "2", "3", "4", "5", "6", "7", "8", "9">>

DigitValue(c) == (CHOOSE i \in 1..10 : DigitChars[i] = c) - 1

IsDigits(s) == s # <<>> /\ \A i \in 1..Len(s) : s[i] \in Digits

RECURSIVE IntOf(_)
IntOf(s) ==
    IF s = <<>> THEN 0
    ELSE IntOf(SubSeq(s, 1, Len(s) - 1)) * 10 + DigitValue(s[Len(s)])

\* float(s) for the decimal notations "d+" and "d+.d", the value in tenths; any
\* other text of the model's inputs raises ValueError
ParseFloat(s) ==
    IF IsDigits(s) THEN [ok |-> TRUE, tenths |-> IntOf(s) * 10]
    ELSE IF /\ Len(s) >= 3
            /\ s[Len(s) - 1] = "."
            /\ IsDigits(SubSeq(s, 1, Len(s) - 2))
            /\ s[Len(s)] \in Digits
    THEN [ok |-> TRUE, tenths |-> IntOf(SubSeq(s, 1, Len(s) - 2)) * 10 + DigitValue(s[Len(s)])]
    ELSE [ok |-> FALSE, tenths |-> 0]

\* int(x) of a float given in tenths
IntPart(tenths) == tenths \div 10

\* d.get(key, default)
Get(d, key, default) == IF key \in DOMAIN d THEN d[key] ELSE default

\* sub in s
Contains(s, sub) == \E i \in 1..(Len(s) + 1) : StartsWithAt(s, i, sub)

DbName == <<"o", "r", "c", "l">>

\* The env labels of the metrics: "prd", "xPrD1", "npd"
EnvLabels == { <<"p", "r", "d">>, <<"x", "P", "r", "D", "1">>, <<"n", "p", "d">> }

\* The value strings of the metrics: "79.9", "80", "80.5", and "x", which does
\* not parse
ValueStrings ==
    { <<"7", "9", ".", "9">>, <<"8", "0">>, <<"8", "0", ".", "5">>, <<"x">> }

Metrics ==
    { ("database" :> DbName) @@ ("env" :> e) : e \in EnvLabels } \cup { "database" :> DbName }

\* Result items of a response: {metric, value: [timestamp, "value"]}, or an item
\* with no value
MetricItems ==
    { [metric |-> m, value |-> <<1, v>>] : m \in Metrics, v \in ValueStrings }
        \cup { [metric |-> m] : m \in Metrics }

ItemSeqs(items, n) == UNION { [1..k -> items] : k \in 0..n }

\* What the GET of the API and response.json() give: a RequestException
\* (transport failure, HTTP error status, undecodable body), or the envelope
ApiReplies(items, n) ==
    { [kind |-> "RequestException", status |-> "-", result |-> <<>>],
      [kind |-> "json", status |-> "error", result |-> <<>>] }
    \cup { [kind |-> "json", status |-> "success", result |-> r] : r \in ItemSeqs(items, n) }

\* float(item['value'][1]) raises KeyError or ValueError
Unparseable(item) ==
    \/ "value" \notin DOMAIN item
    \/ ~ParseFloat(item.value[2]).ok

ProcessCount(item) == ParseFloat(item.value[2]).tenths

AlertOf(item) ==
    [database |-> Get(item.metric, "database", NA),
     client |-> Get(item.metric, "client", NA),
     env |-> Get(item.metric, "env", NA),
     value |-> IntPart(ProcessCount(item))]

\* Step 2 of main, the loop over results: the alerts collected, or raised when
\* an item's value does not parse (the exception ends the loop and the try block)
RECURSIVE CollectAlerts(_)
CollectAlerts(items) ==
    IF items = <<>> THEN [raised |-> FALSE, alerts |-> <<>>]
    ELSE IF Unparseable(Head(items)) THEN [raised |-> TRUE, alerts |-> <<>>]
    ELSE LET rest == CollectAlerts(Tail(items))
         IN  IF rest.raised THEN rest
             ELSE IF ProcessCount(Head(items)) >= THRESHOLD * 10
             THEN [raised |-> FALSE, alerts |-> <<AlertOf(Head(items))>> \o rest.alerts]
             ELSE rest

\* 'prd' in alert.get('env', '').lower()
IsPrd(alert) == Contains(Lower(alert.env), <<"p", "r", "d">>)

IsNotPrd(alert) == ~IsPrd(alert)

\* A faulty variant: the table is rendered for an empty bucket too
create_alert_table_html_always(title, alerts) ==
    << [tag |-> "h3", text |-> title],
       [tag |-> "table",
        header |-> <<"Database", "Client", "Environment", "Session Count %">>,
        rows |-> [i \in 1..Len(alerts) |->
                     <<alerts[i].database, alerts[i].client, alerts[i].env,
                       alerts[i].value>>]] >>

create_alert_table_html(title, alerts) ==
    IF alerts = <<>> THEN <<>>
    ELSE << [tag |-> "h3", text |-> title],
            [tag |-> "table",
             header |-> <<"Database", "Client", "Environment", "Session Count %">>,
             rows |-> [i \in 1..Len(alerts) |->
                          <<alerts[i].database, alerts[i].client, alerts[i].env,
                            alerts[i].value>>]] >>

PrdTitle == "Production Environments (PRD)"

NpdTitle == "Non-Production Environments (NPD)"

\* html_body of main
SessionBody(prd, npd) ==
    << [tag |-> "h2", text |-> "High Session Usage Alert"], [tag |-> "p"] >>
        \o create_alert_table_html(PrdTitle, prd)
        \o create_alert_table_html(NpdTitle, npd)
        \o << [tag |-> "br"], [tag |-> "div", text |-> "Thanks,"],
              [tag |-> "div", text |-> "Oapm Team"] >>

InitSession ==
    /\ script = "SessionUsage"
    /\ pc = "start"
    /\ CommonInit
    /\ HealthIdle
    /\ SessionIdle
    /\ ConnectorIdle
    /\ HarnessIdle

\* Step 1 of main: the GET, raise_for_status, json() and the status check
FetchMetrics ==
    /\ script = "SessionUsage"
    /\ pc = "start"
    /\ \E reply \in ApiReplies(MetricItems, MaxItems) :
          CASE reply.kind = "RequestException" ->
                 /\ log' = log \cup {"Failed to connect to API"}
                 /\ pc' = "done"
                 /\ UNCHANGED samples
            [] reply.kind = "json" /\ reply.status # "success" ->
                 /\ log' = log \cup {"API returned a non-success status"}
                 /\ pc' = "done"
                 /\ UNCHANGED samples
            [] OTHER ->
                 /\ samples' = reply.result
                 /\ pc' = "filter"
                 /\ UNCHANGED log
    /\ UNCHANGED <<script, escaped, dispatch, healthVars, all_alerts, prd_alerts,
                   npd_alerts, connectorVars, harnessVars>>

\* A faulty variant: main does not return when there is no alert
FilterAlerts_without_empty_check ==
    /\ script = "SessionUsage"
    /\ pc = "filter"
    /\ LET collected == CollectAlerts(samples)
       IN  IF collected.raised
           THEN /\ log' = log \cup {"Failed to parse API response"}
                /\ pc' = "done"
                /\ UNCHANGED all_alerts
           ELSE /\ all_alerts' = collected.alerts
                /\ pc' = "partition"
                /\ UNCHANGED log
    /\ UNCHANGED <<script, escaped, dispatch, healthVars, samples, prd_alerts, npd_alerts,
                   connectorVars, harnessVars>>

\* Steps 2 and 3 of main: the alerts at or above THRESHOLD; main returns when
\* there are none, and logs a parse failure raised by the loop
FilterAlerts ==
    /\ script = "SessionUsage"
    /\ pc = "filter"
    /\ LET collected == CollectAlerts(samples)
       IN  IF collected.raised
           THEN /\ log' = log \cup {"Failed to parse API response"}
                /\ pc' = "done"
                /\ UNCHANGED all_alerts
           ELSE /\ all_alerts' = collected.alerts
                /\ pc' = IF collected.alerts = <<>> THEN "done" ELSE "partition"
                /\ UNCHANGED log
    /\ UNCHANGED <<script, escaped, dispatch, healthVars, samples, prd_alerts, npd_alerts,
                   connectorVars, harnessVars>>

\* Step 4 of main: the production and non-production buckets
PartitionAlerts ==
    /\ script = "SessionUsage"
    /\ pc = "partition"
    /\ prd_alerts' = SelectSeq(all_alerts, IsPrd)
    /\ npd_alerts' = SelectSeq(all_alerts, IsNotPrd)
    /\ pc' = "send"
    /\ UNCHANGED <<script, commonVars, healthVars, samples, all_alerts, connectorVars,
                   harnessVars>>

\* Steps 5 and 6 of main: the body and send_alert_email. send_alert_email lets
\* the exceptions of the SMTP session propagate; main handles SMTPException and
\* no other exception of the session.
SendSessionEmail ==
    /\ script = "SessionUsage"
    /\ pc = "send"
    /\ \E recipients_str \in RecipientStrings :
          LET receivers_list == alert_receivers_list(recipients_str)
              body == SessionBody(prd_alerts, npd_alerts)
          IN  IF receivers_list = <<>>
              THEN /\ dispatch' = Append(dispatch,
                          Dispatched(recipients_str, receivers_list, "skipped", body, <<>>))
                   /\ log' = log \cup {"No recipients specified"}
                   /\ UNCHANGED escaped
              ELSE \E o \in SmtpOutcomes :
                     /\ dispatch' = Append(dispatch,
                            Dispatched(recipients_str, receivers_list, o, body, <<>>))
                     /\ log' = IF o = "SMTPException"
                               THEN log \cup {"Failed to send email"}
                               ELSE log
                     /\ escaped' = (o = "OSError")
    /\ pc' = "done"
    /\ UNCHANGED <<script, healthVars, sessionVars, connectorVars, harnessVars>>

NextSession ==
    \/ FetchMetrics
    \/ FilterAlerts
    \/ PartitionAlerts
    \/ SendSessionEmail

SpecSession == InitSession /\ [][NextSession]_vars

----------------------------------------------------------------------------
(* connector.py *)

QUERIES_TO_RUN ==
    << [alert_type |-> "queue_capacity_low", filename |-> "Event Queue Back pressure.csv"],
       [alert_type |-> "logged_errors_increase",
        filename |-> "Debezium worker task errors.csv"],
       [alert_type |-> "offset_commit_failure",
        filename |-> "Debezium offset commit failures.csv"] >>

DESIRED_LABELS == <<"cluster", "connector", "env", "server">>

\* Python's None as the value of a label
None == <<"None">>

\* Result items of the connector queries: one that parses, one whose value does not
ConnectorItems ==
    { [metric |-> ("database" :> DbName) @@ ("env" :> <<"p", "r", "d">>),
       value |-> <<1, <<"8", "0">>>>],
      [metric |-> ("database" :> DbName) @@ ("env" :> <<"p", "r", "d">>),
       value |-> <<1, <<"x">>>>] }

\* alert_data of fetch_and_process_query for one item
AlertData(item, alert_type_label) ==
    [value |-> ProcessCount(item),
     alert_type |-> alert_type_label,
     labels |-> [i \in 1..Len(DESIRED_LABELS) |->
                    Get(Get(item, "metric", <<>>), DESIRED_LABELS[i], None)]]

\* The loop of fetch_and_process_query: an item that does not parse is skipped
RECURSIVE ParsedAlerts(_, _)
ParsedAlerts(items, alert_type_label) ==
    IF items = <<>> THEN <<>>
    ELSE IF Unparseable(Head(items)) THEN ParsedAlerts(Tail(items), alert_type_label)
    ELSE <<AlertData(Head(items), alert_type_label)>>
            \o ParsedAlerts(Tail(items), alert_type_label)

\* fetch_and_process_query on each reply of the backend
fetch_and_process_query(reply, alert_type_label) ==
    IF reply.kind = "RequestException" THEN <<>>
    ELSE IF reply.status # "success" THEN <<>>
    ELSE ParsedAlerts(reply.result, alert_type_label)

\* receivers_list of send_report_email: trimmed entries, empty ones kept
report_receivers_list(recipients_str) == StripEach(Split(recipients_str, ","))

\* not receivers_list or not receivers_list[0]
report_skips(receivers_list) == receivers_list = <<>> \/ receivers_list[1] = <<>>

\* email_body_html of the main script: one list entry for each generated file
ReportBody(files) ==
    << [tag |-> "div", text |-> "The Debezium monitoring script detected issues"],
       [tag |-> "ul", items |-> files] >>

InitConnector ==
    /\ script = "connector"
    /\ pc = "queries"
    /\ CommonInit
    /\ HealthIdle
    /\ SessionIdle
    /\ ConnectorIdle
    /\ HarnessIdle

\* One pass of the main script's loop over QUERIES_TO_RUN: the query is run, and
\* if it gave alerts they join the master list, are written to the query's CSV
\* file (an IOError is printed) and the filename is kept for attachment
RunQuery ==
    /\ script = "connector"
    /\ pc = "queries"
    /\ next_query <= Len(QUERIES_TO_RUN)
    /\ \E reply \in ApiReplies(ConnectorItems, MaxItems), written \in BOOLEAN :
          LET config == QUERIES_TO_RUN[next_query]
              alerts == fetch_and_process_query(reply, config.alert_type)
          IN  IF alerts # <<>>
              THEN /\ all_alerts_data' = all_alerts_data \o alerts
                   /\ generated_csv_files' = Append(generated_csv_files, config.filename)
                   /\ IF written
                      THEN /\ csv_written' = csv_written
                                  \cup {[filename |-> config.filename, rows |-> alerts]}
                           /\ UNCHANGED log
                      ELSE /\ log' = log \cup {"Could not write to CSV file"}
                           /\ UNCHANGED csv_written
              ELSE UNCHANGED <<all_alerts_data, generated_csv_files, csv_written, log>>
    /\ next_query' = next_query + 1
    /\ UNCHANGED <<script, pc, escaped, dispatch, healthVars, sessionVars, harnessVars>>

\* The end of the main script: send_report_email if there is any alert. The
\* files that exist are attached; every exception of the SMTP session is
\* caught and printed inside send_report_email.
SendReportEmail ==
    /\ script = "connector"
    /\ pc = "queries"
    /\ next_query > Len(QUERIES_TO_RUN)
    /\ IF Len(all_alerts_data) > 0
       THEN \E recipients_str \in RecipientStrings :
              LET receivers_list == report_receivers_list(recipients_str)
                  body == ReportBody(generated_csv_files)
                  attached == SelectSeq(generated_csv_files,
                                  LAMBDA f : \E w \in csv_written : w.filename = f)
              IN  IF report_skips(receivers_list)
                  THEN /\ dispatch' = Append(dispatch,
                              Dispatched(recipients_str, receivers_list, "skipped", body,
                                         attached))
                       /\ log' = log \cup {"No recipients specified"}
                  ELSE \E o \in SmtpOutcomes :
                         /\ dispatch' = Append(dispatch,
                                Dispatched(recipients_str, receivers_list, o, body, attached))
                         /\ log' = IF o = "sent" THEN log
                                   ELSE log \cup {"Failed to send email"}
       ELSE UNCHANGED <<dispatch, log>>
    /\ pc' = "done"
    /\ UNCHANGED <<script, escaped, healthVars, sessionVars, connectorVars, harnessVars>>

NextConnector ==
    \/ RunQuery
    \/ SendReportEmail

SpecConnector == InitConnector /\ [][NextConnector]_vars

----------------------------------------------------------------------------
(* The three scripts: a behaviour is one run of one of them *)

Init ==
    \/ InitHealth
    \/ InitSession
    \/ InitConnector

Next ==
    \/ NextHealth
    \/ NextSession
    \/ NextConnector

Spec == Init /\ [][Next]_vars

----------------------------------------------------------------------------
(* Function harness: one call of a function of the scripts on an input     *)
(* drawn from a bounded set.                                               *)

\* Path segments the harness URLs are joined from (none holds a '/')
SegPool == { <<>>, <<"C", "l">>, <<"p", "r", "D", "e", "n", "v">> }

ExampleSegs ==
    << <<"h", "t", "t", "p", "s", ":">>, <<>>, <<"h">>,
       <<"C", "L", "I", "E", "N", "T", "X">>, <<"G", "R", "O", "K">>,
       <<"P", "R", "D", "E", "N", "V">>, <<"m", "e", "t", "r", "i", "c", "s">> >>

UrlSegLists ==
    UNION { [1..n -> SegPool] : n \in 1..MaxSegs } \cup {ExampleSegs}

\* File names a batch directory can hold: a.py, A.PY, x.bak.py, .py, a.py.bak,
\* a.py.BAK, a.py.orig, a.old, a.tmp, a.py.20250623, a.py.2025062, a.py~, #a.py#,
\* a.pyc, a.txt and the empty name
FileNames ==
    { <<"a", ".", "p", "y">>,
      <<"A", ".", "P", "Y">>,
      <<"x", ".", "b", "a", "k", ".", "p", "y">>,
      <<".", "p", "y">>,
      <<"a", ".", "p", "y", ".", "b", "a", "k">>,
      <<"a", ".", "p", "y", ".", "B", "A", "K">>,
      <<"a", ".", "p", "y", ".", "o", "r", "i", "g">>,
      <<"a", ".", "o", "l", "d">>,
      <<"a", ".", "t", "m", "p">>,
      <<"a", ".", "p", "y", ".", "2", "0", "2", "5", "0", "6", "2", "3">>,
      <<"a", ".", "p", "y", ".", "2", "0", "2", "5", "0", "6", "2">>,
      <<"a", ".", "p", "y", "~">>,
      <<"#", "a", ".", "p", "y", "#">>,
      <<"a", ".", "p", "y", "c">>,
      <<"a", ".", "t", "x", "t">>,
      <<>> }

Pending == [done |-> FALSE]

Returned(v) == [done |-> TRUE, value |-> v]

Calls ==
    { [fn |-> "extract_info_from_url", segs |-> segs, arg |-> Join(segs, "/")] :
        segs \in UrlSegLists }
    \cup { [fn |-> "check_url_status", segs |-> <<>>, arg |-> o] : o \in GetOutcomes }
    \cup { [fn |-> "find_python_files_in_batch_dirs", segs |-> <<>>, arg |-> n] :
              n \in FileNames }

InitCalls ==
    /\ script = "call"
    /\ pc = "call"
    /\ CommonInit
    /\ HealthIdle
    /\ SessionIdle
    /\ ConnectorIdle
    /\ call \in Calls
    /\ ret = Pending

CallExtractInfoFromUrl ==
    /\ script = "call"
    /\ pc = "call"
    /\ call.fn = "extract_info_from_url"
    /\ ret' = Returned(extract_info_from_url(call.arg))
    /\ pc' = "returned"
    /\ UNCHANGED <<script, call, commonVars, healthVars, sessionVars, connectorVars>>

CallCheckUrlStatus ==
    /\ script = "call"
    /\ pc = "call"
    /\ call.fn = "check_url_status"
    /\ ret' = Returned(check_url_status(call.arg))
    /\ pc' = "returned"
    /\ UNCHANGED <<script, call, commonVars, healthVars, sessionVars, connectorVars>>

\* find_python_files_in_batch_dirs on one file of a batch directory: whether
\* the file is yielded
CallFindPythonFiles ==
    /\ script = "call"
    /\ pc = "call"
    /\ call.fn = "find_python_files_in_batch_dirs"
    /\ ret' = Returned(IsQualifyingFile(call.arg))
    /\ pc' = "returned"
    /\ UNCHANGED <<script, call, commonVars, healthVars, sessionVars, connectorVars>>

NextCalls ==
    \/ CallExtractInfoFromUrl
    \/ CallCheckUrlStatus
    \/ CallFindPythonFiles

SpecCalls == InitCalls /\ [][NextCalls]_vars

----------------------------------------------------------------------------
(* Claims *)

HealthRun == script = "CheckURLResponse"

\* The row the claim names for a URL: greatest check_timestamp, and among equal
\* timestamps the greatest id
LatestById(t, u) ==
    CHOOSE i \in DOMAIN t :
        /\ t[i].url = u
        /\ \A j \in DOMAIN t :
              t[j].url = u =>
                  \/ t[j].check_timestamp < t[i].check_timestamp
                  \/ (t[j].check_timestamp = t[i].check_timestamp /\ t[j].id <= t[i].id)

\* C4: the latest-status query returns at most one row per URL, the row with the
\* greatest check_timestamp of that URL with ties broken by row id, and only
\* when its status is not "200".
C4_LatestStatusById ==
    (HealthRun /\ fetched) =>
        /\ \A i, j \in DOMAIN failed_urls :
              failed_urls[i].url = failed_urls[j].url => i = j
        /\ { failed_urls[i] : i \in DOMAIN failed_urls }
              = { [client |-> table[LatestById(table, u)].client,
                   env |-> table[LatestById(table, u)].env,
                   url |-> u,
                   status |-> table[LatestById(table, u)].status] :
                    u \in { v \in UrlsOf(table) : table[LatestById(table, v)].status # "200" } }

\* C5: the run over a directory holding the one file
\* grok = [["https://h/C/G/PRD1/metrics"], "C", "PRD"], in which nothing fails
\* and the probe is answered with HTTP 500, ends with one result of status
\* "500", one row, that row returned by the query, a one-row table and one email.
C5_EndToEnd ==
    (/\ HealthRun
     /\ pc = "done"
     /\ fs = [isdir |-> TRUE, files |-> <<ScenarioFile>>]
     /\ log = {}
     /\ \A i \in DOMAIN results : results[i].Status = "500"
     /\ \A i \in DOMAIN dispatch : dispatch[i].outcome = "sent")
    => /\ Len(results) = 1
       /\ results[1].URL = ScenarioUrl
       /\ results[1].Status = "500"
       /\ Len(table) = 1
       /\ Len(failed_urls) = 1
       /\ failed_urls[1].url = ScenarioUrl
       /\ Cardinality(SentEmails) = 1
       /\ \A i \in SentEmails :
             /\ TableCount(dispatch[i].body) = 1
             /\ \A k \in DOMAIN dispatch[i].body :
                   dispatch[i].body[k].tag = "table" => Len(dispatch[i].body[k].rows) = 1

\* C6: extract_info_from_url returns a pair for every URL string: the sentinel
\* ("N/A","N/A") when the URL has fewer than 6 '/'-separated segments, otherwise
\* (segment 3, upper-case of the first 3 characters of segment 5); the example
\* URL gives ("CLIENTX","PRD").
C6_ClassifierTotal ==
    (script = "call" /\ call.fn = "extract_info_from_url" /\ pc = "returned") =>
        /\ ret.done
        /\ Len(call.segs) < 6 => ret.value = <<NA, NA>>
        /\ Len(call.segs) >= 6 =>
              ret.value = <<call.segs[4], Upper(Take(call.segs[6], 3))>>
        /\ call.arg = ExampleUrl =>
              ret.value = << <<"C", "L", "I", "E", "N", "T", "X">>, <<"P", "R", "D">> >>

\* A six-segment URL whose environment segment is in mixed case has been classified
C6_Witness ==
    /\ script = "call"
    /\ call.fn = "extract_info_from_url"
    /\ pc = "returned"
    /\ Len(call.segs) = 6
    /\ call.segs[6] = <<"p", "r", "D", "e", "n", "v">>
    /\ ret.value[2] = <<"P", "R", "D">>

\* C7: check_url_status issues one GET and returns one label for every outcome
\* of it: the status code as a string for a response, "Timeout" for a timeout,
\* "Connection Error" for a connection failure, "Request Error: <kind>" for
\* another exception of the request library, "Unknown Error: <kind>" otherwise.
C7_OneGetOneLabel ==
    (script = "call" /\ call.fn = "check_url_status" /\ pc = "returned") =>
        /\ ret.done
        /\ ret.value.requests = 1
        /\ call.arg = Response(200) => ret.value.status = "200"
        /\ call.arg = Response(404) => ret.value.status = "404"
        /\ call.arg = Response(500) => ret.value.status = "500"
        /\ call.arg.exc \in {"ReadTimeout", "ConnectTimeout"} => ret.value.status = "Timeout"
        /\ call.arg.exc = "ConnectionError" => ret.value.status = "Connection Error"
        /\ call.arg.exc = "TooManyRedirects" =>
              ret.value.status = "Request Error: TooManyRedirects"
        /\ call.arg.exc = "RuntimeError" => ret.value.status = "Unknown Error: RuntimeError"

\* A request that timed out while connecting has been labelled
C7_Witness ==
    /\ script = "call"
    /\ call.fn = "check_url_status"
    /\ pc = "returned"
    /\ call.arg = Raised("ConnectTimeout")
    /\ ret.value.status = "Timeout"

\* C8: the connection is opened at most once; a run that opened it ends with
\* it closed, on every path; no statement runs on a connection that is not
\* open, and nothing runs after the close.
C8_ConnectionScoped ==
    HealthRun =>
        /\ connects <= 1
        /\ (connects = 0) = (conn = "None")
        /\ pc = "done" => conn # "open"
        /\ ~used_closed
        /\ conn = "closed" => pc = "done"

\* A run that opened the connection and was ended by an unexpected exception
\* has closed it
C8_Witness ==
    /\ HealthRun
    /\ pc = "done"
    /\ connects = 1
    /\ conn = "closed"
    /\ "An unexpected error occurred" \in log

\* The alerts of the run: what the script's report is made from
Alerts ==
    CASE script = "SessionUsage" -> all_alerts
      [] script = "connector" -> all_alerts_data
      [] script = "CheckURLResponse" -> failed_urls
      [] OTHER -> <<>>

\* C1: in every script a run with no alert makes no call of the mail function
\* (so no SMTP send) and writes no CSV file.
C1_NoAlertNoDispatch ==
    Alerts = <<>> =>
        /\ dispatch = <<>>
        /\ csv_written = {}
        /\ generated_csv_files = <<>>

\* A SessionUsage run whose response held samples, all below the threshold,
\* has ended without an email
C1_Witness ==
    /\ script = "SessionUsage"
    /\ pc = "done"
    /\ samples # <<>>
    /\ log = {}
    /\ all_alerts = <<>>
    /\ dispatch = <<>>

\* The table of body that follows the heading title has n rows
HasTable(body, title, n) ==
    \E k \in 1..(Len(body) - 1) :
        /\ body[k].tag = "h3"
        /\ body[k].text = title
        /\ body[k + 1].tag = "table"
        /\ Len(body[k + 1].rows) = n

Bool2Nat(b) == IF b THEN 1 ELSE 0

\* One table for each non-empty bucket of SessionUsage, none for an empty one
SessionTables(body) ==
    /\ TableCount(body) = Bool2Nat(prd_alerts # <<>>) + Bool2Nat(npd_alerts # <<>>)
    /\ prd_alerts # <<>> => HasTable(body, PrdTitle, Len(prd_alerts))
    /\ npd_alerts # <<>> => HasTable(body, NpdTitle, Len(npd_alerts))

\* The one failure table of CheckURLResponse
FailureTables(body) ==
    /\ TableCount(body) = 1
    /\ HasTable(body, "Failed URL Checks", Len(failed_urls))

\* C2 as stated: a finished SessionUsage or CheckURLResponse run with at least
\* one alert has sent exactly one email, whose body has one table for each
\* non-empty bucket.
C2_ExactlyOneEmail ==
    (script \in {"SessionUsage", "CheckURLResponse"} /\ pc = "done" /\ Alerts # <<>>) =>
        /\ Cardinality(SentEmails) = 1
        /\ \A i \in SentEmails :
              IF script = "SessionUsage" THEN SessionTables(dispatch[i].body)
              ELSE FailureTables(dispatch[i].body)

\* C2: a finished run with at least one alert has called the mail function
\* exactly once, so at most one email was sent: none when the recipient list
\* was found empty or the SMTP session failed. The body handed to the mail
\* function has one table for each non-empty bucket and none for an empty one
\* (SessionUsage: production, non-production; CheckURLResponse: the failed
\* URLs); the connector's body has no table, it lists the files of the queries
\* that gave alerts.
C2_OneDispatchOneTablePerBucket ==
    (script \in {"SessionUsage", "CheckURLResponse", "connector"}
        /\ pc = "done" /\ Alerts # <<>>) =>
        /\ Len(dispatch) = 1
        /\ Cardinality(SentEmails) <= 1
        /\ dispatch[1].outcome \in {"sent", "skipped", "SMTPException", "OSError"}
        /\ script = "SessionUsage" => SessionTables(dispatch[1].body)
        /\ script = "CheckURLResponse" => FailureTables(dispatch[1].body)
        /\ script = "connector" =>
              /\ TableCount(dispatch[1].body) = 0
              /\ \E k \in DOMAIN dispatch[1].body :
                    /\ dispatch[1].body[k].tag = "ul"
                    /\ dispatch[1].body[k].items = generated_csv_files

\* A SessionUsage run with production alerts only has sent its one email, with
\* one table
C2_Witness ==
    /\ script = "SessionUsage"
    /\ pc = "done"
    /\ prd_alerts # <<>>
    /\ npd_alerts = <<>>
    /\ Len(dispatch) = 1
    /\ dispatch[1].outcome = "sent"
    /\ TableCount(dispatch[1].body) = 1

\* The samples of a response that parse and are at or above the threshold
AtOrAbove(items) ==
    SelectSeq(items, LAMBDA it : ~Unparseable(it) /\ ProcessCount(it) >= THRESHOLD * 10)

\* C3: once the loop over the response is over, the alert output holds the
\* samples with value >= THRESHOLD, in order, and no other sample; once the
\* buckets are made, every alert is in exactly one of them, the production
\* bucket when its env label contains "prd" in any case.
C3_ThresholdPartition ==
    script = "SessionUsage" =>
        /\ (pc \in {"partition", "send"} \/ (pc = "done" /\ samples # <<>>)) =>
              all_alerts = [i \in 1..Len(AtOrAbove(samples)) |-> AlertOf(AtOrAbove(samples)[i])]
        /\ (pc = "send" \/ (pc = "done" /\ all_alerts # <<>>)) =>
              /\ Len(prd_alerts) + Len(npd_alerts) = Len(all_alerts)
              /\ \A i \in DOMAIN prd_alerts :
                    Contains(Lower(prd_alerts[i].env), <<"p", "r", "d">>)
              /\ \A i \in DOMAIN npd_alerts :
                    ~Contains(Lower(npd_alerts[i].env), <<"p", "r", "d">>)
              /\ \A i \in DOMAIN all_alerts :
                    \/ \E k \in DOMAIN prd_alerts : prd_alerts[k] = all_alerts[i]
                    \/ \E k \in DOMAIN npd_alerts : npd_alerts[k] = all_alerts[i]

\* C9: every call of a mail function works on the configured string split on
\* ',', each entry trimmed and the empty entries dropped; the email goes to
\* that list, and the call is skipped exactly when that list is empty.
C9_RecipientList ==
    \A i \in DOMAIN dispatch :
        LET expected == DropEmpty(StripEach(Split(dispatch[i].recipients_str, ",")))
        IN  /\ dispatch[i].to = expected
            /\ (dispatch[i].outcome = "skipped") = (expected = <<>>)

\* The errors after which main still goes on to the report
PerItemErrors == {"Error inserting data", "Error reading file"}

\* C10: an insert commits one row or none; a failed insert is logged, leaves the
\* rows committed before it in place and is followed by the next URL or file;
\* and a run in which nothing but inserts (or file reads) failed has walked
\* every directory entry and executed the latest-status query.
C10_FailedInsertIsLocal ==
    /\ [][(HealthRun /\ pc = "insert") =>
             /\ \/ table' = table
                \/ (Len(table') = Len(table) + 1 /\ SubSeq(table', 1, Len(table)) = table)
             /\ table' = table =>
                   /\ "Error inserting data" \in log'
                   /\ pc' = (IF Len(urls) > 1 THEN "probe" ELSE "walk")
                   /\ results' = results
                   /\ conn' = "open"]_vars
    /\ [](( /\ HealthRun
            /\ pc \in {"email", "finally", "done"}
            /\ "Error inserting data" \in log
            /\ log \subseteq PerItemErrors)
           => (walked = Len(fs.files) /\ fetched))

\* A run whose second insert failed after its first was committed has gone on
\* to the query, with the first row still in the table
C10_Witness ==
    /\ HealthRun
    /\ pc = "done"
    /\ "Error inserting data" \in log
    /\ Len(results) = 2
    /\ Len(table) = 1
    /\ table[1].url = results[1].URL
    /\ fetched

\* The items of a response whose value parses
Parseable(items) == SelectSeq(items, LAMBDA it : ~Unparseable(it))

\* C11: in SessionUsage a response whose status is not "success" gives no
\* sample and propagates nothing; after a "success" response the alerts are
\* those of the items that parse, in order, the items that do not parse being
\* skipped one by one: no item is lost to another item's failure.
C11_PerItemSkip ==
    script = "SessionUsage" =>
        /\ "API returned a non-success status" \in log =>
              (pc = "done" /\ samples = <<>> /\ all_alerts = <<>> /\ ~escaped)
        /\ (pc \in {"partition", "send"} \/ (pc = "done" /\ samples # <<>>)) =>
              all_alerts = CollectAlerts(Parseable(samples)).alerts

\* What main logs for a setup failure: a missing root path, a connection that
\* cannot be established, a table creation that fails
SetupErrors == {"Base path does not exist", "Database error", "Error creating table"}

\* C12: a CheckURLResponse run in which a setup failure was logged goes straight
\* to its end: no URL is probed, no row inserted, no directory entry read, the
\* latest-status query is neither answered nor failed, and no mail function is
\* called.
C12_SetupFailureIsFatal ==
    (HealthRun /\ log \cap SetupErrors # {}) =>
        /\ pc \in {"finally", "done"}
        /\ gets = 0
        /\ results = <<>>
        /\ table = <<>>
        /\ walked = 0
        /\ ~fetched
        /\ "Could not fetch failed URLs" \notin log
        /\ dispatch = <<>>

\* A run over a directory with files whose table creation failed has ended,
\* its connection closed, with nothing probed
C12_Witness ==
    /\ HealthRun
    /\ pc = "done"
    /\ fs.isdir
    /\ fs.files # <<>>
    /\ "Error creating table" \in log
    /\ conn = "closed"
    /\ gets = 0

\* What the scripts log when an email is not sent
ReportingErrors ==
    {"No recipients specified", "Failed to send email", "An unexpected error occurred"}

\* C13: in every script, a call of the mail function that sent nothing (the
\* recipient list was empty, the SMTP submission failed, the relay could not
\* be reached) is logged and no exception leaves the script's main flow.
C13_ReportingFailureContained ==
    \A i \in DOMAIN dispatch :
        dispatch[i].outcome # "sent" =>
            /\ ~escaped
            /\ log \cap ReportingErrors # {}

\* The backup patterns of a file name: a backup suffix in any case, a name
\* "<name>.py.<8 digits>", a trailing '~', a name wrapped in '#'
BackupSuffixes ==
    { <<".", "b", "a", "k">>, <<".", "o", "r", "i", "g">>, <<".", "o", "l", "d">>,
      <<".", "t", "m", "p">> }

HasBackupPattern(n) ==
    \/ \E x \in BackupSuffixes : EndsWith(Lower(n), x)
    \/ /\ Len(n) >= 12
       /\ SubSeq(n, Len(n) - 11, Len(n) - 8) = <<".", "p", "y", ".">>
       /\ \A i \in (Len(n) - 7)..Len(n) : n[i] \in Digits
    \/ (n # <<>> /\ n[Len(n)] = "~")
    \/ (n # <<>> /\ n[1] = "#" /\ n[Len(n)] = "#")

\* C14: a file of a batch directory is yielded iff its name ends with ".py" and
\* is_backup_file is false for it; no name with a backup pattern is yielded,
\* and every name that ends with ".py" and has no backup pattern is.
C14_FileSelection ==
    (script = "call" /\ call.fn = "find_python_files_in_batch_dirs" /\ pc = "returned") =>
        /\ ret.done
        /\ ret.value = (EndsWith(call.arg, <<".", "p", "y">>) /\ ~is_backup_file(call.arg))
        /\ HasBackupPattern(call.arg) => ~ret.value
        /\ (EndsWith(call.arg, <<".", "p", "y">>) /\ ~HasBackupPattern(call.arg)) => ret.value

\* The dated backup a.py.20250623 has been passed over
C14_Witness ==
    /\ script = "call"
    /\ call.fn = "find_python_files_in_batch_dirs"
    /\ pc = "returned"
    /\ call.arg = <<"a", ".", "p", "y", ".", "2", "0", "2", "5", "0", "6", "2", "3">>
    /\ ret.value = FALSE

\* The row of a URL inserted last
NewestRow(t, u) ==
    CHOOSE i \in DOMAIN t : t[i].url = u /\ \A j \in DOMAIN t : t[j].url = u => j <= i

Reported(u) == \E i \in DOMAIN failed_urls : failed_urls[i].url = u

\* C15: in every run after the first whose latest-status query is answered, a
\* stored URL is reported iff the row inserted last for it has a status other
\* than "200", whether or not the run probed it: a failing URL is reported
\* again in each run, and no longer once a newer row with status "200" is in.
C15_ReAlertUntilRecovered ==
    (HealthRun /\ run > 1 /\ fetched) =>
        \A u \in UrlsOf(table) :
            Reported(u) = (table[NewestRow(table, u)].status # "200")

====
